---- MODULE Spec2Model ----
(***************************************************************************)
(* A model of pydmart's request / session / error-mapping layer            *)
(* (src/src/pydmart/dmart_service.py): the class-wide aiohttp session, the  *)
(* per-instance bearer token, connect / disconnect, the dispatcher __api    *)
(* with the operations that go through it, and Record construction.         *)
(*                                                                         *)
(* Conventions.  An optional value is a sequence of length 0 (absent) or 1. *)
(* A character string that the code inspects character by character (a      *)
(* subpath) is a sequence of one-character strings.  A Python exception is  *)
(* named by its class.  A JSON value is a record with the one field that    *)
(* names its kind: [str |-> s], [int |-> n], [null |-> TRUE],               *)
(* [list |-> items] or [dict |-> keys].                                     *)
(*                                                                         *)
(* A call that issues a request waits three times: for the response         *)
(* (`async with session.request(...)`), for the body                        *)
(* (`await response.json()`) and at the exit of the `async with` block,     *)
(* where aiohttp waits for the connection to be released.  Other calls may  *)
(* run at each wait, so such a call is four steps: the step that issues the *)
(* request and one step from each wait to the next.                         *)
(***************************************************************************)
EXTENDS Integers, Sequences, FiniteSets, Bags, TLC

VARIABLES
    session,     \* class attribute DmartService.session: [bound, pool]
    poolsCreated,\* number of aiohttp.ClientSession objects ever created
    poolCalls,   \* whether create_session_pool has been called at all
    constructed, \* per instance: the body of __init__ has run
    auth_token,  \* per instance: attribute auth_token
    pending,     \* the bag of calls suspended at one of their waits
    last,        \* the call that finished in the latest step, if any
    limit,       \* how many calls the callers keep in flight at once
    recIn,       \* Record construction: the subpath given
    recFrom,     \* Record construction: "none", "caller" or "stored"
    recOut,      \* Record construction: the result
    envIn,       \* DmartResponse construction: the object validated
    envOut       \* DmartResponse construction: the envelope, if one was made

vars == <<session, poolsCreated, poolCalls, constructed, auth_token, pending,
          last, limit, recIn, recFrom, recOut, envIn, envOut>>

serviceVars == <<session, poolsCreated, poolCalls, constructed, auth_token,
                 pending, last, limit>>

recordVars == <<recIn, recFrom, recOut>>

envVars == <<envIn, envOut>>

(***************************************************************************)
(* Bounds of the model.                                                    *)
(***************************************************************************)
\* calls that may be suspended at one of their waits at the same time
MaxInFlight == 1

\* the same, in the specification of concurrent calls on one instance
MaxConcurrent == 2

\* longest subpath given to Record construction
MaxLen == 5

(***************************************************************************)
(* Program constants.                                                      *)
(***************************************************************************)
HTTP_OK == 200

UNAUTH_STATUS == 401

UNAUTH_CODE == 10

SUBPATH_MAX == 128

SHORTNAME_MAX == 64

None == <<>>

Some(x) == <<x>>

Inst == {1, 2}

\* the values of the attribute auth_token: "UNSET" is the attribute missing
\* (no assignment has run), "NONE" is Python's None, the rest are the strings
\* login responses carry as access_token: "t1", "t2" and "" (empty).
UNSET == "UNSET"

NONE == "NONE"

\* TokenTruthy that takes the empty string for a token
TokenTruthyEmptyToo(t) == t # NONE

\* Python truthiness of a value of auth_token that is bound
TokenTruthy(t) == t \notin {NONE, ""}

\* the instance holds no token: nothing bound, None, or the empty string
TokenAbsent(t) == t = UNSET \/ ~TokenTruthy(t)

(***************************************************************************)
(* Error, DmartException and the outcomes of a call.                       *)
(***************************************************************************)
JStr(s) == [str |-> s]

JInt(n) == [int |-> n]

JNull == [null |-> TRUE]

JList(items) == [list |-> items]

JDict(keys) == [dict |-> keys]

IsStr(v) == "str" \in DOMAIN v

IsInt(v) == "int" \in DOMAIN v

IsNull(v) == "null" \in DOMAIN v

IsList(v) == "list" \in DOMAIN v

IsDict(v) == "dict" \in DOMAIN v

Digits == {"0", "1", "2", "3", "4", "5", "6", "7", "8", "9"}

DigitValue(c) ==
    CASE c = "0" -> 0 [] c = "1" -> 1 [] c = "2" -> 2 [] c = "3" -> 3
      [] c = "4" -> 4 [] c = "5" -> 5 [] c = "6" -> 6 [] c = "7" -> 7
      [] c = "8" -> 8 [] c = "9" -> 9

\* the white space str::trim removes, as far as a string of this module
\* can hold it: space, tab, line feed, form feed, carriage return, and, as
\* the characters themselves, U+000B (vertical tab), U+0085 (next line),
\* U+00A0 (no-break space) and U+1680 (ogham space mark)
Whitespace == {" ", "\t", "\n", "\f", "\r", "", "", " ", " "}

\* the k-th character of string s
Char(s, k) == SubSeq(s, k, k)

\* the characters of s from the k-th on
From(s, k) == SubSeq(s, k, Len(s))

StartsWith(s, c) == Len(s) > 0 /\ Head(s) = c

RECURSIVE TrimStart(_)
TrimStart(s) ==
    IF Len(s) > 0 /\ Head(s) \in Whitespace THEN TrimStart(Tail(s)) ELSE s

RECURSIVE TrimEnd(_)
TrimEnd(s) ==
    IF Len(s) > 0 /\ Char(s, Len(s)) \in Whitespace
    THEN TrimEnd(SubSeq(s, 1, Len(s) - 1)) ELSE s

\* str::trim
Trim(s) == TrimEnd(TrimStart(s))

RECURSIVE DigitsValue(_)
\* the number a string of digits is the numeral of
DigitsValue(s) ==
    IF Len(s) = 0 THEN 0
    ELSE DigitsValue(SubSeq(s, 1, Len(s) - 1)) * 10 + DigitValue(Char(s, Len(s)))

AllDigits(s) == Len(s) > 0 /\ \A k \in 1..Len(s) : Char(s, k) \in Digits

\* a numeral without needless zeros: "0", or digits the first of which is
\* not "0"
Canonical(s) == AllDigits(s) /\ (Len(s) = 1 \/ Head(s) # "0")

\* pydantic's integer parse: an optional minus sign, then a numeral without
\* needless zeros; a plus sign and zeros in front are refused
ParseInt(s) ==
    IF StartsWith(s, "-")
    THEN IF Canonical(Tail(s)) THEN Some(0 - DigitsValue(Tail(s))) ELSE None
    ELSE IF Canonical(s) THEN Some(DigitsValue(s)) ELSE None

RECURSIVE AfterLeadingZeros(_, _)
\* the scan of s from its k-th character, the ones before being zeros or
\* underscores: the scan ends at another digit or a minus sign, which start
\* what is kept, or at a point, where the zero before it is kept as well
AfterLeadingZeros(s, k) ==
    IF k > Len(s) THEN Some(From(s, Len(s)))
    ELSE IF Char(s, k) \in {"0", "_"} THEN AfterLeadingZeros(s, k + 1)
    ELSE IF Char(s, k) \in Digits \/ Char(s, k) = "-" THEN Some(From(s, k))
    ELSE IF Char(s, k) = "." THEN Some(From(s, k - 1))
    ELSE None

\* leading zeros dropped: absent when s does not start with a digit, or
\* when something other than a digit, an underscore, a minus sign or a point
\* follows its leading zeros
StripLeadingZeros(s) ==
    IF Len(s) = 0 THEN None
    ELSE IF Head(s) = "0" THEN AfterLeadingZeros(s, 2)
    ELSE IF Head(s) \in Digits THEN Some(s)
    ELSE None

\* a fraction of one or more zeros, and nothing else, is dropped with its
\* point
StripDecimalZeros(s) ==
    LET points == {k \in 1..Len(s) : Char(s, k) = "."}
    IN  IF points = {} THEN s
        ELSE LET i == CHOOSE k \in points : \A j \in points : k <= j
             IN  IF i < Len(s) /\ \A k \in (i + 1)..Len(s) : Char(s, k) = "0"
                 THEN SubSeq(s, 1, i - 1) ELSE s

RECURSIVE WithoutUnderscores(_)
WithoutUnderscores(s) ==
    IF Len(s) = 0 THEN s
    ELSE IF Head(s) = "_" THEN WithoutUnderscores(Tail(s))
    ELSE Head(s) \o WithoutUnderscores(Tail(s))

\* single underscores between other characters are dropped; absent when s
\* has none, or has one at either end or two in a row
StripUnderscores(s) ==
    IF \/ \A k \in 1..Len(s) : Char(s, k) # "_"
       \/ Head(s) = "_"
       \/ Char(s, Len(s)) = "_"
       \/ \E k \in 1..(Len(s) - 1) : Char(s, k) = "_" /\ Char(s, k + 1) = "_"
    THEN None
    ELSE Some(WithoutUnderscores(s))

\* what is left of a trimmed string once its sign is taken off: one plus,
\* or else one minus; absent when another sign follows the one taken off
Unsigned(s) ==
    IF StartsWith(s, "+")
    THEN IF StartsWith(Tail(s), "-") THEN None ELSE Some(Tail(s))
    ELSE IF StartsWith(s, "-")
    THEN IF StartsWith(Tail(s), "-") \/ StartsWith(Tail(s), "+")
         THEN None ELSE Some(Tail(s))
    ELSE Some(s)

\* the string pydantic parses when the trimmed string s itself is no
\* integer: its sign is set aside, leading zeros, a fraction of zeros and
\* underscores are dropped from the rest, and a minus sign is put back;
\* absent when the rest is not of a form these steps take
CleanIntStr(s) ==
    IF Unsigned(s) = None THEN None
    ELSE IF StripLeadingZeros(Unsigned(s)[1]) = None THEN None
    ELSE LET t == StripDecimalZeros(StripLeadingZeros(Unsigned(s)[1])[1])
             u == IF StripUnderscores(t) # None THEN StripUnderscores(t)[1] ELSE t
         IN  IF StripUnderscores(t) = None /\ Len(t) = Len(s) THEN None
             ELSE IF StartsWith(s, "-") THEN Some("-" \o u)
             ELSE Some(u)

\* pydantic's reading of a string as an int (a field declared int given a
\* str): the trimmed string parsed as it is, or else cleaned and parsed;
\* absent when it is no integer
StrAsInt(s) ==
    IF ParseInt(Trim(s)) # None THEN ParseInt(Trim(s))
    ELSE IF CleanIntStr(Trim(s)) = None THEN None
    ELSE ParseInt(CleanIntStr(Trim(s))[1])

\* a field declared str (lines 68, 70): a string is taken, nothing else is
StrField(v) == IF IsStr(v) THEN Some(v.str) ELSE None

\* a field declared int (line 69): an int is taken, a string is converted
IntField(v) ==
    IF IsInt(v) THEN Some(v.int)
    ELSE IF IsStr(v) THEN StrAsInt(v.str)
    ELSE None

\* info: list[dict] | None = None (line 71), given absent, null or a value
InfoValid(info) ==
    \/ info = None
    \/ IsNull(info[1])
    \/ /\ IsList(info[1])
       /\ \A k \in 1..Len(info[1].list) : IsDict(info[1].list[k])

InfoField(info) ==
    IF info = None \/ IsNull(info[1]) THEN None ELSE Some(info[1].list)

\* Error.model_validate: type, code and message are required and each is
\* validated against its declared type, info defaults to None.  The
\* argument is the JSON object, each key optional; the result is the Error,
\* or absent for pydantic's ValidationError.
ErrorModelValidate(e) ==
    IF /\ e.type # None /\ StrField(e.type[1]) # None
       /\ e.code # None /\ IntField(e.code[1]) # None
       /\ e.message # None /\ StrField(e.message[1]) # None
       /\ InfoValid(e.info)
    THEN Some([type |-> StrField(e.type[1])[1], code |-> IntField(e.code[1])[1],
               message |-> StrField(e.message[1])[1], info |-> InfoField(e.info)])
    ELSE None

Raised(exc) ==
    [kind |-> "raised", exc |-> exc, status_code |-> 0, error |-> None,
     envelope |-> None]

DmartException(status_code, error) ==
    [kind |-> "raised", exc |-> "DmartException", status_code |-> status_code,
     error |-> Some(error), envelope |-> None]

Returned(value) ==
    [kind |-> "returned", exc |-> "", status_code |-> 0, error |-> None,
     envelope |-> value]

\* the Error of line 187
NotAuthenticated ==
    [type |-> "login", code |-> UNAUTH_CODE,
     message |-> "Not authenticated Dmart user", info |-> None]

(***************************************************************************)
(* The backend's answers.  A response is absent (the transport produced    *)
(* none) or [status, body]; a body is not JSON or a JSON object whose keys  *)
(* status, records, error and attributes are each optional.  An item of     *)
(* records is an object whose keys resource_type, shortname and subpath are *)
(* optional and whose attributes is an object with an optional              *)
(* access_token.                                                            *)
(***************************************************************************)
NotJson ==
    [json |-> FALSE, status |-> None, records |-> None, error |-> None,
     attributes |-> None]

ObjWith(st, recs, err, attrs) ==
    [json |-> TRUE, status |-> st, records |-> recs, error |-> err,
     attributes |-> attrs]

Obj(st, recs, err) == ObjWith(st, recs, err, None)

LoginRecord(tok) ==
    [resource_type |-> None, shortname |-> None, subpath |-> None,
     attributes |-> [access_token |-> tok]]

\* an item with the keys of a Record
RecordDict(resource_type, shortname, subpath) ==
    [resource_type |-> Some(resource_type), shortname |-> Some(shortname),
     subpath |-> Some(subpath), attributes |-> [access_token |-> None]]

ErrValidation ==
    [type |-> Some(JStr("validation")), code |-> Some(JInt(12)),
     message |-> Some(JStr("bad shortname")), info |-> None]

ErrJwt ==
    [type |-> Some(JStr("jwtauth")), code |-> Some(JInt(49)),
     message |-> Some(JStr("Not authenticated")),
     info |-> Some(JList(<<JDict({"detail"})>>))]

\* no message
ErrMalformed ==
    [type |-> Some(JStr("validation")), code |-> Some(JInt(12)),
     message |-> None, info |-> None]

\* the code given as the string "12"
ErrCodeNumeral == [ErrValidation EXCEPT !.code = Some(JStr("12"))]

\* the code given as a string that is no numeral
ErrCodeWord == [ErrValidation EXCEPT !.code = Some(JStr("abc"))]

\* the code given as strings pydantic cleans before it parses them, and as
\* strings it refuses
ErrCodeStrings ==
    {[ErrValidation EXCEPT !.code = Some(JStr(s))] :
        s \in {"012", " +5", "1_0", "5.0", "-5", "0-5", "\r5",
               "5.5", "1__0", "", "5.", "-_5", "+-5", "0-05", "5"}}

\* the type given as a number
ErrTypeNumber == [ErrValidation EXCEPT !.type = Some(JInt(5))]

\* info given as a list of strings
ErrInfoStrings == [ErrValidation EXCEPT !.info = Some(JList(<<JStr("detail")>>))]

\* info given as null
ErrInfoNull == [ErrValidation EXCEPT !.info = Some(JNull)]

Resp(status, body) == Some([status |-> status, body |-> body])

\* answers to POST /user/login
LoginResponses ==
    { None,
      Resp(200, NotJson),
      Resp(200, Obj(Some("success"), Some(<<LoginRecord(Some("t1"))>>), None)),
      Resp(200, Obj(Some("success"),
                    Some(<<LoginRecord(Some("t2")), LoginRecord(Some("t1"))>>), None)),
      Resp(200, Obj(Some("success"), Some(<<LoginRecord(Some(""))>>), None)),
      Resp(200, Obj(Some("success"), Some(<<LoginRecord(None)>>), None)),
      Resp(200, Obj(Some("success"), Some(<<>>), None)),
      Resp(200, Obj(Some("success"), None, None)),
      Resp(200, Obj(None, Some(<<LoginRecord(Some("t1"))>>), None)),
      Resp(200, Obj(Some("failed"), Some(<<LoginRecord(Some("t1"))>>), Some(ErrJwt))),
      Resp(401, Obj(Some("failed"), None, Some(ErrJwt))),
      Resp(401, Obj(Some("success"), Some(<<LoginRecord(Some("t2"))>>), None)) }

\* answers to a dispatched request
ApiResponses ==
    { None,
      Resp(200, NotJson),
      Resp(200, Obj(Some("success"), Some(<<>>), None)),
      Resp(200, Obj(Some("success"), Some(<<LoginRecord(None)>>), None)),
      Resp(200, Obj(Some("success"), None, None)),
      Resp(200, Obj(Some("failed"), None, Some(ErrValidation))),
      Resp(401, Obj(Some("failed"), None, Some(ErrJwt))),
      Resp(422, Obj(Some("failed"), None, Some(ErrValidation))),
      Resp(422, Obj(Some("failed"), None, Some(ErrMalformed))),
      Resp(422, Obj(Some("failed"), None, Some(ErrCodeNumeral))),
      Resp(422, Obj(Some("failed"), None, Some(ErrTypeNumber))),
      Resp(422, Obj(Some("failed"), None, None)),
      Resp(500, NotJson) }

(***************************************************************************)
(* Record (lines 82-94).                                                   *)
(***************************************************************************)
\* the characters subpaths are drawn from: two letters, the separator, and
\* a character outside the class of SUBPATH
Alphabet == {"a", "b", "/", "-"}

\* the character class of SUBPATH (line 9), on Alphabet and "_"
SubpathClass == {"a", "b", "_", "/"}

\* Field(pattern=SUBPATH): ^[class]{1,128}$
MatchesSubpath(s) ==
    /\ Len(s) >= 1
    /\ Len(s) <= SUBPATH_MAX
    /\ \A k \in 1..Len(s) : s[k] \in SubpathClass

RECURSIVE LStrip(_)
\* str.lstrip("/")
LStrip(s) == IF s # <<>> /\ Head(s) = "/" THEN LStrip(Tail(s)) ELSE s

RECURSIVE RStrip(_)
\* str.rstrip("/")
RStrip(s) ==
    IF s # <<>> /\ s[Len(s)] = "/" THEN RStrip(SubSeq(s, 1, Len(s) - 1)) ELSE s

\* str.strip("/")
Strip(s) == RStrip(LStrip(s))

\* lines 93-94
NormalizeSubpath(s) == IF s # <<"/">> THEN Strip(s) ELSE s

\* Record.__init__: BaseModel.__init__ validates the fields as given (ok is
\* FALSE for its ValidationError), then the subpath is replaced by plain
\* assignment, which pydantic does not validate
RecordInit(s) ==
    IF MatchesSubpath(s)
    THEN [ok |-> TRUE, subpath |-> NormalizeSubpath(s)]
    ELSE [ok |-> FALSE, subpath |-> <<>>]

\* the values of ResourceType, lines 27-58
ResourceType ==
    {"user", "group", "folder", "schema", "content", "acl", "comment", "media",
     "data_asset", "locator", "relationship", "alteration", "history", "space",
     "branch", "permission", "role", "ticket", "json", "lock", "post",
     "reaction", "reply", "share", "plugin_wrapper", "notification", "csv",
     "jsonl", "sqlite", "duckdb", "parquet"}

\* the character class of SHORTNAME (line 10), on Alphabet and "_"
ShortnameClass == {"a", "b", "_"}

\* Field(pattern=SHORTNAME): ^[class]{1,64}$
MatchesShortname(s) ==
    /\ Len(s) >= 1
    /\ Len(s) <= SHORTNAME_MAX
    /\ \A k \in 1..Len(s) : s[k] \in ShortnameClass

\* Record.model_validate on an item of records: resource_type, shortname,
\* subpath and attributes are required and validated, the other fields take
\* their defaults, and __init__ normalises the subpath.  Absent for
\* pydantic's ValidationError.
RecordModelValidate(item) ==
    IF /\ item.resource_type # None /\ item.resource_type[1] \in ResourceType
       /\ item.shortname # None /\ MatchesShortname(item.shortname[1])
       /\ item.subpath # None /\ RecordInit(item.subpath[1]).ok
    THEN Some([resource_type |-> item.resource_type[1], uuid |-> None,
               shortname |-> item.shortname[1],
               subpath |-> RecordInit(item.subpath[1]).subpath,
               attributes |-> item.attributes, attachments |-> None,
               retrieve_lock_status |-> FALSE])
    ELSE None

(***************************************************************************)
(* DmartResponse and the dispatcher's handling of a response.              *)
(***************************************************************************)
\* the two kinds of Python object the dispatcher holds after the request:
\* the aiohttp response, and the dict decoded from its body
AsClientResponse(r) == [py |-> "ClientResponse", val |-> r]

AsDict(b) == [py |-> "dict", val |-> b]

\* records: list[Record] | Any | None = None (line 99): a list whose items
\* all validate as Record becomes the list of those Records, anything else
\* is taken as it is
RecordsField(recs) ==
    IF recs = None THEN None
    ELSE IF \A k \in 1..Len(recs[1]) : RecordModelValidate(recs[1][k]) # None
    THEN Some([k \in 1..Len(recs[1]) |-> RecordModelValidate(recs[1][k])[1]])
    ELSE recs

\* attributes: dict[str, Any] | None = None (line 100), given absent, null
\* or a value
AttributesValid(attrs) == attrs = None \/ IsNull(attrs[1]) \/ IsDict(attrs[1])

AttributesField(attrs) ==
    IF attrs = None \/ IsNull(attrs[1]) THEN None ELSE Some(attrs[1].dict)

\* DmartResponse.model_validate(obj): the input must be a mapping; status is
\* required and one of Status; error, when given, must validate as Error;
\* records and attributes as above.  The result is the envelope, or absent
\* for pydantic's ValidationError.
DmartResponseModelValidate(obj) ==
    IF obj.py # "dict" THEN None
    ELSE LET b == obj.val IN
         IF b.status = None \/ b.status[1] \notin {"success", "failed"} THEN None
         ELSE IF b.error # None /\ ErrorModelValidate(b.error[1]) = None THEN None
         ELSE IF ~AttributesValid(b.attributes) THEN None
         ELSE Some([status |-> b.status[1],
                    error |-> IF b.error = None THEN None
                              ELSE ErrorModelValidate(b.error[1]),
                    records |-> RecordsField(b.records),
                    attributes |-> AttributesField(b.attributes)])

\* the object line 197 hands to DmartResponse.model_validate
ApiValidated(r) == AsClientResponse(r)

\* lines 189-197 once the request has been issued: resp is the backend's
\* answer, absent when session.request raised for want of one
ApiOutcome(resp) ==
    IF resp = None THEN Raised("ClientError")
    ELSE LET r == resp[1] IN
         IF ~r.body.json THEN Raised("ContentTypeError")
         ELSE IF r.status # HTTP_OK
         THEN IF r.body.error = None THEN Raised("KeyError")
              ELSE IF ErrorModelValidate(r.body.error[1]) = None
                   THEN Raised("ValidationError")
                   ELSE DmartException(r.status, ErrorModelValidate(r.body.error[1])[1])
         ELSE LET v == DmartResponseModelValidate(ApiValidated(r)) IN
              IF v = None THEN Raised("ValidationError") ELSE Returned(v)

(***************************************************************************)
(* connect's handling of the login response.                               *)
(***************************************************************************)
\* LoginRejected with `and` in place of `or`
LoginRejectedBoth(b) ==
    /\ (IF b.status = None THEN "failed" ELSE b.status[1]) = "failed"
    /\ (b.records = None \/ b.records[1] = <<>>)

\* line 124: resp_json.get("status", "failed") == "failed" or not resp_json.get("records")
LoginRejected(b) ==
    \/ (IF b.status = None THEN "failed" ELSE b.status[1]) = "failed"
    \/ b.records = None
    \/ b.records[1] = <<>>

\* LoginToken that takes the last record in place of the first
LoginTokenLast(b) == b.records[1][Len(b.records[1])].attributes.access_token

\* line 127: resp_json["records"][0]["attributes"]["access_token"]
LoginToken(b) == b.records[1][1].attributes.access_token

\* lines 122-127 once the request has been issued
ConnectOutcome(resp) ==
    IF resp = None THEN Raised("ClientError")
    ELSE LET b == resp[1].body IN
         IF ~b.json THEN Raised("ContentTypeError")
         ELSE IF LoginRejected(b) THEN Raised("ConnectionError")
         ELSE IF LoginToken(b) = None THEN Raised("KeyError")
         ELSE Returned(None)

\* the value of auth_token after connect has handled resp
ConnectToken(old, resp) ==
    IF ConnectOutcome(resp).kind = "returned" THEN LoginToken(resp[1].body)[1] ELSE old

(***************************************************************************)
(* Headers.                                                                *)
(***************************************************************************)
\* json_headers, lines 130-135
JsonHeaders(i) ==
    [ContentType |-> Some("application/json"),
     Authorization |-> Some("Bearer " \o auth_token[i])]

\* headers, lines 137-141
Headers(i) ==
    [ContentType |-> None, Authorization |-> Some("Bearer " \o auth_token[i])]

\* Python truthiness of the json argument: a dict (its set of keys) or None
JsonTruthy(json) == json # None /\ json[1] # {}

\* ApiHeaders that always takes json_headers
ApiHeadersAlwaysJson(i, json) == JsonHeaders(i)

\* line 189: headers=self.json_headers if json else self.headers
ApiHeaders(i, json) == IF JsonTruthy(json) THEN JsonHeaders(i) ELSE Headers(i)

\* the headers of the login request, line 122
LoginHeaders == [ContentType |-> Some("application/json"), Authorization |-> None]

NoHeaders == [ContentType |-> None, Authorization |-> None]

(***************************************************************************)
(* Calls.                                                                  *)
(***************************************************************************)
\* tok is the value of auth_token when the call was made, pool the pool
\* self.session resolved to then (0 when it is no pool); at is the wait the
\* call is suspended at ("request", "body" or "exit"), resp the response
\* once there is one, and tokPrev the instance's auth_token just before the
\* step of the call that ran, or passed by, its assignment to auth_token
Call(i, op, json, data, headers) ==
    [inst |-> i, op |-> op, json |-> json, data |-> data,
     tok |-> auth_token[i], pool |-> session.pool, headers |-> headers,
     at |-> "request", resp |-> None, tokPrev |-> auth_token[i]]

\* the record of a finished call: sent is the number of network requests it
\* issued
Finished(c, sent, resp, outcome) ==
    Some([call |-> c, sent |-> sent, tokPrev |-> c.tokPrev,
          resp |-> resp, outcome |-> outcome])

\* the calls in flight
InFlight == BagToSet(pending)

\* pending with call c gone on to be call d
Moved(c, d) == (pending (-) SetToBag({c})) (+) SetToBag({d})

\* the calls that step from pending to pending' puts at wait `at`
Arrived(at) ==
    {c \in BagToSet(pending') :
        c.at = at /\ CopiesIn(c, pending') > CopiesIn(c, pending)}

\* self.session is usable: the class attribute is bound to a pool
SessionIsPool == session.bound /\ session.pool # 0

AuthOps ==
    {"get_profile", "create", "read", "read_json_payload", "update", "delete",
     "query", "query_data_asset", "progress_ticket",
     "upload_resource_with_payload", "disconnect"}

(***************************************************************************)
(* The initial state: the class body binds neither session nor auth_token. *)
(* A host that binds DmartService.session = None before first use gives     *)
(* the other initial state.                                                 *)
(***************************************************************************)
Init ==
    /\ session \in {[bound |-> FALSE, pool |-> 0], [bound |-> TRUE, pool |-> 0]}
    /\ poolsCreated = 0
    /\ poolCalls = FALSE
    /\ constructed = [i \in Inst |-> FALSE]
    /\ auth_token = [i \in Inst |-> UNSET]
    /\ pending = EmptyBag
    /\ last = None
    /\ limit = MaxInFlight
    /\ recIn = <<>>
    /\ recFrom = "none"
    /\ recOut = [ok |-> FALSE, subpath |-> <<>>]
    /\ envIn = [py |-> "none", http |-> 0, body |-> NotJson]
    /\ envOut = None

(***************************************************************************)
(* create_session_pool and __init__.                                       *)
(***************************************************************************)
\* SessionPoolAfter without the test of line 106: a new pool at every call
SessionPoolAlwaysNew ==
    IF ~session.bound THEN session
    ELSE [bound |-> TRUE, pool |-> poolsCreated + 1 + (IF session.pool = 0 THEN 0 ELSE 1)]

\* lines 104-107; no await between the test and the assignment.  With the
\* attribute unbound, `cls.session` raises AttributeError.
SessionPoolAfter ==
    IF ~session.bound THEN session
    ELSE IF session.pool = 0 THEN [bound |-> TRUE, pool |-> poolsCreated + 1]
    ELSE session

PoolsCreatedAfter ==
    IF session.bound /\ session.pool = 0 THEN poolsCreated + 1 ELSE poolsCreated

create_session_pool ==
    /\ session' = SessionPoolAfter
    /\ poolsCreated' = PoolsCreatedAfter
    /\ poolCalls' = TRUE
    /\ last' = None
    /\ UNCHANGED <<constructed, auth_token, pending, recordVars, envVars, limit>>

\* __init__, lines 110-114: the three fields, then create_session_pool.
\* __init__ is a coroutine function, so DmartService(...) itself raises
\* TypeError; the action is its body, awaited on an object made by __new__.
\* The fields are assigned before create_session_pool can raise.
Construct(i) ==
    /\ ~constructed[i]
    /\ constructed' = [constructed EXCEPT ![i] = TRUE]
    /\ session' = SessionPoolAfter
    /\ poolsCreated' = PoolsCreatedAfter
    /\ poolCalls' = TRUE
    /\ last' = None
    /\ UNCHANGED <<auth_token, pending, recordVars, envVars, limit>>

(***************************************************************************)
(* connect.                                                                *)
(***************************************************************************)
LoginBody == Some({"shortname", "password"})

\* lines 117-122, up to the await of the login request
connect(i) ==
    /\ constructed[i]
    /\ LET c == Call(i, "connect", LoginBody, FALSE, LoginHeaders) IN
       IF ~SessionIsPool
       THEN /\ last' = Finished([c EXCEPT !.headers = NoHeaders], 0, None,
                                Raised("AttributeError"))
            /\ UNCHANGED pending
       ELSE /\ BagCardinality(pending) < limit
            /\ pending' = pending (+) SetToBag({c})
            /\ last' = None
    /\ UNCHANGED <<session, poolsCreated, poolCalls, constructed, auth_token, recordVars, envVars, limit>>

\* TokensAfterConnect with the token kept on the class, for every instance
TokensAfterConnectShared(i, resp) ==
    [j \in Inst |-> ConnectToken(auth_token[j], resp)]

\* line 127 assigns to self.auth_token: the attribute of instance i alone
TokensAfterConnect(i, resp) ==
    [auth_token EXCEPT ![i] = ConnectToken(@, resp)]

\* line 122, the end of the wait for the login response: the response has
\* come and the block is entered, or session.post raised and connect ends
ConnectResponse ==
    \E c \in InFlight, resp \in LoginResponses :
        /\ c.op = "connect"
        /\ c.at = "request"
        /\ IF resp = None
           THEN /\ pending' = pending (-) SetToBag({c})
                /\ last' = Finished([c EXCEPT !.tokPrev = auth_token[c.inst]],
                                    1, resp, ConnectOutcome(resp))
           ELSE /\ pending' = Moved(c, [c EXCEPT !.at = "body", !.resp = resp])
                /\ last' = None
        /\ UNCHANGED <<session, poolsCreated, poolCalls, constructed, auth_token, recordVars, envVars, limit>>

\* lines 123-127, from the end of the wait for the body to the wait at the
\* exit of the block: the body is decoded and tested, the token assigned
ConnectBody ==
    \E c \in InFlight :
        /\ c.op = "connect"
        /\ c.at = "body"
        /\ pending' = Moved(c, [c EXCEPT !.at = "exit",
                                         !.tokPrev = auth_token[c.inst]])
        /\ auth_token' = TokensAfterConnect(c.inst, c.resp)
        /\ last' = None
        /\ UNCHANGED <<session, poolsCreated, poolCalls, constructed, recordVars, envVars, limit>>

\* the end of the wait at the exit of the block: connect returns, or the
\* exception raised inside the block reaches the caller
ConnectExit ==
    \E c \in InFlight :
        /\ c.op = "connect"
        /\ c.at = "exit"
        /\ pending' = pending (-) SetToBag({c})
        /\ last' = Finished(c, 1, c.resp, ConnectOutcome(c.resp))
        /\ UNCHANGED <<session, poolsCreated, poolCalls, constructed, auth_token, recordVars, envVars, limit>>

(***************************************************************************)
(* The dispatcher.                                                         *)
(***************************************************************************)
\* __api, lines 186-189, up to the await of the request
Api(i, op, json, data) ==
    /\ constructed[i]
    /\ LET c == Call(i, op, json, data, NoHeaders) IN
       IF auth_token[i] = UNSET
       THEN /\ last' = Finished(c, 0, None, Raised("AttributeError"))
            /\ UNCHANGED pending
       ELSE IF ~TokenTruthy(auth_token[i])
       THEN /\ last' = Finished(c, 0, None,
                                DmartException(UNAUTH_STATUS, NotAuthenticated))
            /\ UNCHANGED pending
       ELSE IF ~SessionIsPool
       THEN /\ last' = Finished(c, 0, None, Raised("AttributeError"))
            /\ UNCHANGED pending
       ELSE /\ BagCardinality(pending) < limit
            /\ pending' = pending (+)
                              SetToBag({[c EXCEPT !.headers = ApiHeaders(i, json)]})
            /\ last' = None
    /\ UNCHANGED <<session, poolsCreated, poolCalls, constructed, auth_token, recordVars, envVars, limit>>

\* what the operation hands its caller once __api has finished with `out`:
\* disconnect (lines 166-171) returns nothing, the others return __api's value
OperationOutcome(op, out) ==
    IF op = "disconnect" /\ out.kind = "returned" THEN Returned(None) ELSE out

\* TokenAfterApi that clears the token whatever the logout request came to
TokenAfterApiAlways(op, out, old) == IF op = "disconnect" THEN NONE ELSE old

\* line 171, reached only when __api returned
TokenAfterApi(op, out, old) ==
    IF op = "disconnect" /\ out.kind = "returned" THEN NONE ELSE old

\* the end of __api with answer resp and the rest of the operation that
\* awaited it: no wait separates the two
ApiEnd(c, resp) ==
    /\ pending' = pending (-) SetToBag({c})
    /\ auth_token' = [auth_token EXCEPT
                         ![c.inst] = TokenAfterApi(c.op, ApiOutcome(resp), @)]
    /\ last' = Finished([c EXCEPT !.tokPrev = auth_token[c.inst]], 1, resp,
                        OperationOutcome(c.op, ApiOutcome(resp)))

\* __api, line 189, the end of the wait for the response: the response has
\* come and the block is entered, or session.request raised and the
\* operation ends
ApiResponse ==
    \E c \in InFlight, resp \in ApiResponses :
        /\ c.op \in AuthOps
        /\ c.at = "request"
        /\ IF resp = None
           THEN ApiEnd(c, resp)
           ELSE /\ pending' = Moved(c, [c EXCEPT !.at = "body", !.resp = resp])
                /\ auth_token' = auth_token
                /\ last' = None
        /\ UNCHANGED <<session, poolsCreated, poolCalls, constructed, recordVars, envVars, limit>>

\* __api, lines 190-197, from the end of the wait for the body to the wait
\* at the exit of the block; what these lines come to is ApiOutcome
ApiBody ==
    \E c \in InFlight :
        /\ c.op \in AuthOps
        /\ c.at = "body"
        /\ pending' = Moved(c, [c EXCEPT !.at = "exit"])
        /\ last' = None
        /\ UNCHANGED <<session, poolsCreated, poolCalls, constructed, auth_token, recordVars, envVars, limit>>

\* the end of the wait at the exit of the block: __api returns or raises,
\* and the operation that awaited it runs to its end
ApiExit ==
    \E c \in InFlight :
        /\ c.op \in AuthOps
        /\ c.at = "exit"
        /\ ApiEnd(c, c.resp)
        /\ UNCHANGED <<session, poolsCreated, poolCalls, constructed, recordVars, envVars, limit>>

(***************************************************************************)
(* The operations: each builds its body and calls the dispatcher once.     *)
(***************************************************************************)
\* the body __request and delete build, lines 211-222 and 384-395
RequestBody == Some({"space_name", "request_type", "records"})

\* lines 332-340; kwargs only adds keys
QueryBody(kwargs) ==
    Some({"type", "space_name", "subpath", "retrieve_json_payload",
          "filter_schema_names", "search"} \cup kwargs)

\* lines 286-294
DataAssetBody ==
    Some({"space_name", "subpath", "resource_type", "shortname",
          "schema_shortname", "data_asset_type", "query_string"})

\* lines 368-370: cancellation_reasons is None, "" or a reason
TicketBody(cancellation_reasons) ==
    IF cancellation_reasons # None /\ cancellation_reasons[1] # ""
    THEN Some({"resolution"}) ELSE None

disconnect(i) == Api(i, "disconnect", None, FALSE)

get_profile(i) == Api(i, "get_profile", None, FALSE)

create(i) == Api(i, "create", RequestBody, FALSE)

update(i) == Api(i, "update", RequestBody, FALSE)

delete(i) == Api(i, "delete", RequestBody, FALSE)

read(i) == Api(i, "read", None, FALSE)

read_json_payload(i) == Api(i, "read_json_payload", None, FALSE)

query(i) == \E kwargs \in {{}, {"limit"}} : Api(i, "query", QueryBody(kwargs), FALSE)

query_data_asset(i) == Api(i, "query_data_asset", DataAssetBody, FALSE)

progress_ticket(i) ==
    \E r \in {None, Some(""), Some("late")} :
        Api(i, "progress_ticket", TicketBody(r), FALSE)

\* the records upload_resource_with_payload is given (record: dict[str,
\* Any]): one json.dumps serialises, one holding a value it does not (a
\* set, bytes), one that contains itself
UploadRecords == {"serialisable", "unserialisable", "circular"}

\* line 250, json.dumps(record): the exception it raises, if any
JsonDumpsError(record) ==
    CASE record = "serialisable" -> None
      [] record = "unserialisable" -> Some("TypeError")
      [] record = "circular" -> Some("ValueError")

\* lines 242-271: the record is serialised and the form built before the
\* dispatcher, and with it the token test, is reached
upload_resource_with_payload(i) ==
    \E record \in UploadRecords :
        IF JsonDumpsError(record) = None
        THEN Api(i, "upload_resource_with_payload", None, TRUE)
        ELSE /\ constructed[i]
             /\ last' = Finished(Call(i, "upload_resource_with_payload", None,
                                      TRUE, NoHeaders),
                                 0, None, Raised(JsonDumpsError(record)[1]))
             /\ UNCHANGED <<session, poolsCreated, poolCalls, constructed,
                            auth_token, pending, recordVars, envVars, limit>>

Next ==
    \/ create_session_pool
    \/ \E i \in Inst : Construct(i)
    \/ \E i \in Inst : connect(i)
    \/ ConnectResponse
    \/ ConnectBody
    \/ ConnectExit
    \/ \E i \in Inst : disconnect(i)
    \/ \E i \in Inst : get_profile(i)
    \/ \E i \in Inst : create(i)
    \/ \E i \in Inst : update(i)
    \/ \E i \in Inst : delete(i)
    \/ \E i \in Inst : read(i)
    \/ \E i \in Inst : read_json_payload(i)
    \/ \E i \in Inst : query(i)
    \/ \E i \in Inst : query_data_asset(i)
    \/ \E i \in Inst : progress_ticket(i)
    \/ \E i \in Inst : upload_resource_with_payload(i)
    \/ ApiResponse
    \/ ApiBody
    \/ ApiExit

Spec == Init /\ [][Next]_vars

(***************************************************************************)
(* Concurrent calls on one instance: the callers keep up to MaxConcurrent   *)
(* calls of instance 1 in flight; instance 2 is never constructed.          *)
(***************************************************************************)
InitConcurrent ==
    /\ session \in {[bound |-> FALSE, pool |-> 0], [bound |-> TRUE, pool |-> 0]}
    /\ poolsCreated = 0
    /\ poolCalls = FALSE
    /\ constructed = [i \in Inst |-> FALSE]
    /\ auth_token = [i \in Inst |-> UNSET]
    /\ pending = EmptyBag
    /\ last = None
    /\ limit = MaxConcurrent
    /\ recIn = <<>>
    /\ recFrom = "none"
    /\ recOut = [ok |-> FALSE, subpath |-> <<>>]
    /\ envIn = [py |-> "none", http |-> 0, body |-> NotJson]
    /\ envOut = None

NextConcurrent ==
    \/ create_session_pool
    \/ Construct(1)
    \/ connect(1)
    \/ ConnectResponse
    \/ ConnectBody
    \/ ConnectExit
    \/ disconnect(1)
    \/ get_profile(1)
    \/ create(1)
    \/ update(1)
    \/ delete(1)
    \/ read(1)
    \/ read_json_payload(1)
    \/ query(1)
    \/ query_data_asset(1)
    \/ progress_ticket(1)
    \/ upload_resource_with_payload(1)
    \/ ApiResponse
    \/ ApiBody
    \/ ApiExit

SpecConcurrent == InitConcurrent /\ [][NextConcurrent]_vars

(***************************************************************************)
(* Record construction (lines 82-94) on its own.  The other fields are     *)
(* taken to be valid; only subpath is followed.                             *)
(***************************************************************************)
Subpaths == UNION {[1..k -> Alphabet] : k \in 0..MaxLen}

\* a caller constructs a Record with subpath s
NewRecord ==
    \E s \in Subpaths :
        /\ recIn' = s
        /\ recFrom' = "caller"
        /\ recOut' = RecordInit(s)
        /\ UNCHANGED <<serviceVars, envVars>>

\* a Record is constructed from the subpath an earlier Record stores
RecordFromStored ==
    /\ recOut.ok
    /\ recIn' = recOut.subpath
    /\ recFrom' = "stored"
    /\ recOut' = RecordInit(recOut.subpath)
    /\ UNCHANGED <<serviceVars, envVars>>

NextRecord == NewRecord \/ RecordFromStored

SpecRecord == Init /\ [][NextRecord]_vars

(***************************************************************************)
(* DmartResponse construction (lines 96-100) on its own: from the dict     *)
(* decoded from a body, and from the response object as line 197 does.      *)
(***************************************************************************)
EnvelopeStatuses == {None, Some("success"), Some("failed"), Some("error")}

\* record lists: login records, items that are Records (with a subpath to
\* normalise, and with one that strips to nothing), an item with an unknown
\* resource_type, and a Record next to an item that is none
EnvelopeRecords ==
    {None, Some(<<>>), Some(<<LoginRecord(None)>>),
     Some(<<LoginRecord(Some("t1"))>>),
     Some(<<LoginRecord(Some("t2")), LoginRecord(Some("t1"))>>),
     Some(<<RecordDict("content", <<"a">>, <<"/", "a", "/", "b", "/">>)>>),
     Some(<<RecordDict("content", <<"a">>, <<"/">>),
            RecordDict("folder", <<"b">>, <<"/", "/">>)>>),
     Some(<<RecordDict("content", <<"a", "-">>, <<"a">>)>>),
     Some(<<RecordDict("page", <<"a">>, <<"a">>)>>),
     Some(<<RecordDict("content", <<"a">>, <<"/", "a">>), LoginRecord(None)>>)}

EnvelopeErrors ==
    {None, Some(ErrValidation), Some(ErrJwt), Some(ErrMalformed),
     Some(ErrCodeNumeral), Some(ErrCodeWord), Some(ErrTypeNumber),
     Some(ErrInfoStrings), Some(ErrInfoNull)}

EnvelopeAttributes ==
    {None, Some(JNull), Some(JDict({"k"})), Some(JList(<<>>))}

\* JSON objects a body may decode to: each key absent or present
EnvelopeBodies ==
    { ObjWith(st, recs, err, attrs) :
        st \in EnvelopeStatuses, recs \in EnvelopeRecords,
        err \in EnvelopeErrors, attrs \in EnvelopeAttributes }
        \cup { ObjWith(Some("failed"), None, Some(e), None) :
                   e \in ErrCodeStrings }

\* DmartResponse.model_validate(resp_json)
ValidateDict ==
    \E b \in EnvelopeBodies :
        /\ envIn' = [py |-> "dict", http |-> 0, body |-> b]
        /\ envOut' = DmartResponseModelValidate(AsDict(b))
        /\ UNCHANGED <<serviceVars, recordVars>>

\* DmartResponse.model_validate(response), as __api calls it
ValidateResponse ==
    \E resp \in ApiResponses \ {None} :
        /\ envIn' = [py |-> "ClientResponse", http |-> resp[1].status,
                     body |-> resp[1].body]
        /\ envOut' = DmartResponseModelValidate(ApiValidated(resp[1]))
        /\ UNCHANGED <<serviceVars, recordVars>>

NextEnvelope == ValidateDict \/ ValidateResponse

SpecEnvelope == Init /\ [][NextEnvelope]_vars

(***************************************************************************)
(* Properties of the service.  `last` is the call that finished in the     *)
(* latest step; it is absent after every other step, so auth_token is as    *)
(* that call's last step left it wherever `last` is present.                *)
(***************************************************************************)
\* the latest step finished a call of a dispatched operation
LastIsApi == last # None /\ last[1].call.op \in AuthOps

\* ... and that call had issued its request
LastIsAnsweredApi == LastIsApi /\ last[1].sent = 1

\* a login response whose status is failed or missing, or whose record list
\* is empty or absent
LoginAnswerRejected(resp) ==
    /\ resp # None
    /\ resp[1].body.json
    /\ \/ resp[1].body.status \in {None, Some("failed")}
       \/ resp[1].body.records \in {None, Some(<<>>)}

\* the latest step finished a connect that received such a response
LastIsRejectedConnect ==
    /\ last # None
    /\ last[1].call.op = "connect"
    /\ last[1].sent = 1
    /\ LoginAnswerRejected(last[1].resp)

\* C1: an authenticated operation called on an instance that holds no token
\* fails with DmartException(status_code 401) and issues no network request.
C1_NoTokenIsUnauthenticated ==
    (LastIsApi /\ TokenAbsent(last[1].call.tok))
        => /\ last[1].outcome.exc = "DmartException"
           /\ last[1].outcome.status_code = UNAUTH_STATUS
           /\ last[1].sent = 0

\* C2 as stated: a connect that receives a rejected login response fails with
\* the connection error and the instance's token is absent afterwards, whatever
\* came before.
C2_RejectedConnectLeavesTokenAbsent ==
    LastIsRejectedConnect
        => /\ last[1].outcome.exc = "ConnectionError"
           /\ TokenAbsent(auth_token[last[1].call.inst])

\* the step in which a connect handles a rejected login response leaves
\* every token as it was
RejectedConnectKeepsToken ==
    \A c \in Arrived("exit") :
        (c.op = "connect" /\ LoginAnswerRejected(c.resp))
            => auth_token' = auth_token

\* C2 amended: a connect that receives a rejected login response fails with
\* the connection error and leaves the instance's token exactly as it was
\* before (absent if it was absent, the earlier token if there was one).
C2_RejectedConnectLeavesTokenUnchanged ==
    /\ [](LastIsRejectedConnect
              => /\ last[1].outcome.kind = "raised"
                 /\ last[1].outcome.exc = "ConnectionError")
    /\ [][RejectedConnectKeepsToken]_vars

\* C2 witness: a rejected connect on an instance that held token t1 from an
\* earlier successful connect
C2_Witness ==
    /\ LastIsRejectedConnect
    /\ last[1].tokPrev = "t1"
    /\ auth_token[last[1].call.inst] = "t1"
    /\ last[1].resp[1].body.status = Some("failed")
    /\ last[1].outcome.exc = "ConnectionError"

\* C3: a disconnect made with a token whose logout request the backend
\* answers with 200 and status success completes and leaves the token absent.
C3_DisconnectClearsToken ==
    (/\ LastIsAnsweredApi
     /\ last[1].call.op = "disconnect"
     /\ last[1].resp # None
     /\ last[1].resp[1].status = HTTP_OK
     /\ last[1].resp[1].body.json
     /\ last[1].resp[1].body.status = Some("success"))
        => /\ last[1].outcome.kind = "returned"
           /\ TokenAbsent(auth_token[last[1].call.inst])

\* C4: a dispatched operation answered with 200 and {status: success,
\* records: R} returns an envelope with status success and records R.
C4_SuccessReturnsEnvelope ==
    (/\ LastIsAnsweredApi
     /\ last[1].call.op # "disconnect"
     /\ last[1].resp # None
     /\ last[1].resp[1].status = HTTP_OK
     /\ last[1].resp[1].body.json
     /\ last[1].resp[1].body.status = Some("success")
     /\ last[1].resp[1].body.records # None)
        => /\ last[1].outcome.kind = "returned"
           /\ last[1].outcome.envelope # None
           /\ last[1].outcome.envelope[1].status = "success"
           /\ last[1].outcome.envelope[1].records = last[1].resp[1].body.records

\* the body of a response holds an error object
HasErrorObject(resp) ==
    /\ resp # None
    /\ resp[1].body.json
    /\ resp[1].body.error # None

\* text is the string the object gives under a key
SameText(field, text) ==
    field # None /\ IsStr(field[1]) /\ text = field[1].str

\* n is the code of the object: the integer it gives, or the integer the
\* string it gives is the numeral of
SameCode(field, n) ==
    /\ field # None
    /\ \/ IsInt(field[1]) /\ n = field[1].int
       \/ IsStr(field[1]) /\ StrAsInt(field[1].str) = Some(n)

\* C5: a dispatched operation answered with a status other than 200 and a
\* JSON body holding an error object raises DmartException with that status
\* as status_code and an Error with the object's type, code and message, and
\* returns no envelope.
C5_BackendRejected ==
    (/\ LastIsAnsweredApi
     /\ HasErrorObject(last[1].resp)
     /\ last[1].resp[1].status # HTTP_OK)
        => /\ last[1].outcome.kind = "raised"
           /\ last[1].outcome.exc = "DmartException"
           /\ last[1].outcome.status_code = last[1].resp[1].status
           /\ last[1].outcome.error # None
           /\ SameText(last[1].resp[1].body.error[1].type,
                       last[1].outcome.error[1].type)
           /\ SameCode(last[1].resp[1].body.error[1].code,
                       last[1].outcome.error[1].code)
           /\ SameText(last[1].resp[1].body.error[1].message,
                       last[1].outcome.error[1].message)
           /\ last[1].outcome.envelope = None

\* C6: a dispatched operation whose request got no response, or a response
\* whose body is not JSON, raises DmartException (with the HTTP status as
\* status_code when there is a response).
C6_TransportFailureIsTyped ==
    (/\ LastIsAnsweredApi
     /\ (last[1].resp = None \/ ~last[1].resp[1].body.json))
        => /\ last[1].outcome.exc = "DmartException"
           /\ (last[1].resp # None
                   => last[1].outcome.status_code = last[1].resp[1].status)

\* C7: once create_session_pool has been called, by itself or by constructing
\* an instance, any number of times, exactly one pool has been created and it
\* is the one the class holds.
C7_ExactlyOnePool ==
    poolCalls => /\ poolsCreated = 1
                 /\ session.bound
                 /\ session.pool = 1

\* the requests the dispatcher has issued that the state still shows
DispatchedRequests ==
    {c \in InFlight : c.op \in AuthOps}
        \cup (IF LastIsAnsweredApi THEN {last[1].call} ELSE {})

\* C8: every request the dispatcher issues carries Authorization: Bearer
\* <the instance's token at dispatch>, carries Content-Type: application/json
\* exactly when the operation passed a JSON body, and carries only the
\* Authorization header when it passed form data or no body.
C8_RequestHeaders ==
    \A c \in DispatchedRequests :
        /\ c.headers.Authorization = Some("Bearer " \o c.tok)
        /\ TokenTruthy(c.tok) /\ c.tok # UNSET
        /\ (c.headers.ContentType = Some("application/json")) <=> (c.json # None)
        /\ (c.json = None) => (c.headers.ContentType = None)
        /\ c.data => (c.headers.ContentType = None)

\* C8 witness: an upload_resource_with_payload request in flight with token
\* t2 carries the Authorization header alone
C8_Witness ==
    \E c \in InFlight :
        /\ c.op = "upload_resource_with_payload"
        /\ c.data
        /\ c.tok = "t2"
        /\ c.headers = [ContentType |-> None, Authorization |-> Some("Bearer t2")]

\* the latest step finished a disconnect
LastIsDisconnect == last # None /\ last[1].call.op = "disconnect"

\* C12: a disconnect whose logout request fails (no response, or any error
\* raised by the dispatcher) raises that error to its caller and leaves the
\* instance's token exactly as it was; the token changes only when the
\* logout request completed without raising.
C12_FailedDisconnectKeepsToken ==
    /\ (LastIsDisconnect /\ last[1].sent = 1 /\ last[1].resp = None)
           => /\ last[1].outcome.kind = "raised"
              /\ last[1].outcome.exc = "ClientError"
    /\ (LastIsDisconnect /\ last[1].outcome.kind = "raised")
           => auth_token[last[1].call.inst] = last[1].tokPrev
    /\ (LastIsDisconnect /\ auth_token[last[1].call.inst] # last[1].tokPrev)
           => last[1].outcome.kind = "returned"

\* C12 witness: a disconnect made with token t1 whose logout request got no
\* response has raised, and the token is still t1
C12_Witness ==
    /\ LastIsDisconnect
    /\ last[1].sent = 1
    /\ last[1].resp = None
    /\ last[1].outcome.kind = "raised"
    /\ last[1].tokPrev = "t1"
    /\ auth_token[last[1].call.inst] = "t1"

\* the latest step finished a connect that returned
LastIsSuccessfulConnect ==
    /\ last # None
    /\ last[1].call.op = "connect"
    /\ last[1].outcome.kind = "returned"

\* a login response that is accepted and whose first record carries an
\* access token
LoginAnswerAccepted(resp) ==
    /\ resp # None
    /\ resp[1].body.json
    /\ ~LoginAnswerRejected(resp)
    /\ resp[1].body.records[1][1].attributes.access_token # None

\* a connect that returns has received such a response
ConnectSucceedsOnAccepted ==
    LastIsSuccessfulConnect => LoginAnswerAccepted(last[1].resp)

\* the step in which a connect handles such a response leaves as the
\* instance's token the access token of the first record, whatever the
\* token was
ConnectStoresFirstToken ==
    \A c \in Arrived("exit") :
        (c.op = "connect" /\ LoginAnswerAccepted(c.resp))
            => Some(auth_token'[c.inst])
                   = c.resp[1].body.records[1][1].attributes.access_token

\* a request the dispatcher issues in this step carries the token the
\* instance holds in this step
DispatchCarriesCurrentToken ==
    \A c \in Arrived("request") :
        c.op \in AuthOps
            => c.headers.Authorization = Some("Bearer " \o auth_token'[c.inst])

\* C13: a successful connect stores the access token of the first record of
\* the login response, overwriting any earlier token, and every request
\* dispatched afterwards carries the token the instance then holds, never an
\* earlier one.
C13_ConnectStoresNewestToken ==
    /\ []ConnectSucceedsOnAccepted
    /\ [][ConnectStoresFirstToken]_vars
    /\ [][DispatchCarriesCurrentToken]_vars

\* C13 witness: a second successful connect, answered with records whose
\* first access token is t2, has replaced the earlier token t1 by t2
C13_Witness ==
    /\ LastIsSuccessfulConnect
    /\ last[1].tokPrev = "t1"
    /\ last[1].resp[1].body.records =
           Some(<<LoginRecord(Some("t2")), LoginRecord(Some("t1"))>>)
    /\ auth_token[last[1].call.inst] = "t2"

\* an instance's token changes only in a step of a connect or a disconnect
\* called on that instance: the step in which the connect handles the body
\* of its response, or the last step of the disconnect
TokenChangesOnlyByOwnCall ==
    \A j \in Inst :
        auth_token'[j] # auth_token[j]
            => \/ \E c \in Arrived("exit") : c.inst = j /\ c.op = "connect"
               \/ /\ last' # None
                  /\ last'[1].call.inst = j
                  /\ last'[1].call.op = "disconnect"

\* every request in flight, of whichever instance, went out through the one
\* pool the class holds
RequestsShareThePool ==
    /\ poolsCreated <= 1
    /\ \A c \in InFlight : c.pool = session.pool /\ c.pool # 0

\* C14: no connect, disconnect or other operation on one instance, whether
\* it succeeds or fails, changes another instance's token, while the
\* instances' requests all use the same pool.
C14_TokenIsPerInstance ==
    /\ [][TokenChangesOnlyByOwnCall]_vars
    /\ []RequestsShareThePool

\* C14 witness: instance 2 has just connected and holds t2 while instance 1
\* still holds t1, both calls having used pool 1
C14_Witness ==
    /\ LastIsSuccessfulConnect
    /\ last[1].call.inst = 2
    /\ last[1].call.pool = 1
    /\ auth_token[1] = "t1"
    /\ auth_token[2] = "t2"

\* C16: every call issues at most one network request and ends by
\* returning or by raising a typed error: DmartException (unauthenticated,
\* backend_rejected, transport) or, from connect, the connection error; no
\* other exception escapes, whatever the backend answers.
C16_TypedOutcomeOnly ==
    last # None
        => /\ last[1].sent <= 1
           /\ \/ last[1].outcome.kind = "returned"
              \/ last[1].outcome.exc \in {"DmartException", "ConnectionError"}

\* once a pool exists, no step replaces it, unbinds it or creates another
PoolNeverReplaced ==
    session.pool # 0 => (session' = session /\ poolsCreated' = poolsCreated)

\* C17: once the connection pool has been created, no connect, disconnect,
\* dispatched operation or construction of a further instance replaces it,
\* closes it or sets it absent: the class holds the same pool ever after.
C17_PoolIsNeverReplaced ==
    /\ [][PoolNeverReplaced]_vars
    /\ [](session.pool # 0 => (session.bound /\ session.pool = poolsCreated))

\* C17 witness: with both instances constructed, a disconnect that issued
\* its request through pool 1 has finished and the class still holds pool 1
C17_Witness ==
    /\ constructed[1] /\ constructed[2]
    /\ LastIsDisconnect
    /\ last[1].sent = 1
    /\ last[1].call.pool = 1
    /\ session = [bound |-> TRUE, pool |-> 1]
    /\ poolsCreated = 1

(***************************************************************************)
(* Properties of concurrent calls on one instance, under SpecConcurrent.   *)
(***************************************************************************)
\* the values of a token that has been cleared: None, which line 171
\* assigns, and the empty string, which line 186 takes for None
ClearedTokens == {NONE, ""}

\* C9: "/a/b/" is stored as "a/b", "/" is stored as "/", an accepted subpath
\* is stored without leading or trailing slashes unless it is "/", and a
\* Record constructed from a stored subpath stores the same subpath.
C9_NormalizeSubpath ==
    /\ (recFrom # "none" /\ recIn = <<"/", "a", "/", "b", "/">>)
           => recOut = [ok |-> TRUE, subpath |-> <<"a", "/", "b">>]
    /\ (recFrom # "none" /\ recIn = <<"/">>)
           => recOut = [ok |-> TRUE, subpath |-> <<"/">>]
    /\ (recOut.ok /\ recOut.subpath # <<>> /\ recOut.subpath # <<"/">>)
           => /\ Head(recOut.subpath) # "/"
              /\ recOut.subpath[Len(recOut.subpath)] # "/"
    /\ (recFrom = "stored") => (recOut.ok /\ recOut.subpath = recIn)

\* C10: the subpath stored by an accepted Record construction conforms to
\* the subpath pattern: allowed characters, length 1 to 128.
C10_StoredSubpathConforms ==
    (recFrom # "none" /\ recOut.ok) => MatchesSubpath(recOut.subpath)

(***************************************************************************)
(* Properties of DmartResponse construction, under SpecEnvelope.           *)
(***************************************************************************)
\* C11: every envelope constructed has an error when its status is failed
\* and has records (possibly empty) when its status is success.
C11_EnvelopeInvariant ==
    envOut # None
        => /\ (envOut[1].status = "failed" => envOut[1].error # None)
           /\ (envOut[1].status = "success" => envOut[1].records # None)

====
